---- MODULE Spec2Model ----
(***************************************************************************)
(* Model of image_preview.py: the two HTTP handlers process_image_preview  *)
(* (/image_preview/process) and process_image_preview_chain                *)
(* (/image_preview/process_chain), with the registry lookup, the parameter *)
(* adapter, the result normalizer and the generic fallback transform they  *)
(* contain.                                                                *)
(*                                                                         *)
(* Representation.                                                         *)
(*   - A Python string that the code inspects (schema keys, type tags,     *)
(*     params keys) is a sequence of one-character strings.                *)
(*   - A JSON / Python value is a pair <<kind, payload>>.  Numbers carry   *)
(*     their value in fixed-point units of 1/Scale.                        *)
(*   - A dict is a sequence of <<key, value>> pairs with distinct keys, in *)
(*     iteration order.                                                    *)
(*   - An image array is a record [h, w, px]: px is the row-major sequence *)
(*     of the intensities 0..255 of gray RGB pixels (r = g = b).           *)
(***************************************************************************)
EXTENDS Integers, Sequences, FiniteSets, TLC

\* ------------------------------------------------------------------------
\* Bounds of the model
\* ------------------------------------------------------------------------
MaxChain == 2
MaxParams == 2

\* Fixed-point resolution of numbers: 0.0001 is 10 units.
Scale == 100000

\* ------------------------------------------------------------------------
\* Strings
\* ------------------------------------------------------------------------
S_image == <<"i", "m", "a", "g", "e">>
S_unique_id == <<"u", "n", "i", "q", "u", "e", "_", "i", "d">>
S_IMAGE == <<"I", "M", "A", "G", "E">>
S_UNIQUE_ID == <<"U", "N", "I", "Q", "U", "E", "_", "I", "D">>
S_FLOAT == <<"F", "L", "O", "A", "T">>
S_float == <<"f", "l", "o", "a", "t">>
S_INT == <<"I", "N", "T">>
S_int == <<"i", "n", "t">>
S_BOOLEAN == <<"B", "O", "O", "L", "E", "A", "N">>
S_bool == <<"b", "o", "o", "l">>
S_STRING == <<"S", "T", "R", "I", "N", "G">>
S_str == <<"s", "t", "r">>
S_MASK == <<"M", "A", "S", "K">>

\* sub in s  (Python substring test)
StrIn(sub, s) ==
    \E i \in 0..(Len(s) - Len(sub)) : SubSeq(s, i + 1, i + Len(sub)) = sub

LowerChar(c) ==
    CASE c = "A" -> "a" [] c = "B" -> "b" [] c = "C" -> "c" [] c = "D" -> "d"
      [] c = "E" -> "e" [] c = "F" -> "f" [] c = "G" -> "g" [] c = "H" -> "h"
      [] c = "I" -> "i" [] c = "J" -> "j" [] c = "K" -> "k" [] c = "L" -> "l"
      [] c = "M" -> "m" [] c = "N" -> "n" [] c = "O" -> "o" [] c = "P" -> "p"
      [] c = "Q" -> "q" [] c = "R" -> "r" [] c = "S" -> "s" [] c = "T" -> "t"
      [] c = "U" -> "u" [] c = "V" -> "v" [] c = "W" -> "w" [] c = "X" -> "x"
      [] c = "Y" -> "y" [] c = "Z" -> "z" [] OTHER -> c

\* str.lower()
Lower(s) == [i \in 1..Len(s) |-> LowerChar(s[i])]

\* ------------------------------------------------------------------------
\* Values
\*   <<"null", 0>>          None / JSON null
\*   <<"bool", 0 | 1>>      False / True
\*   <<"int", n>>           an int of value n / Scale (n a multiple of Scale)
\*   <<"huge", 1>>          an int beyond the range of a float (10**400)
\*   <<"float", n>>         a finite float of value n / Scale
\*   <<"inf", 1>>           float('inf')
\*   <<"intstr", n>>        the text of an int literal, "2"
\*   <<"floatstr", n>>      the text of a float literal, "1.5"
\*   <<"hugestr", 1>>       the text of a huge int literal
\*   <<"text", s>>          any other text, s its characters
\*   <<"list", k>>          a JSON list of k elements
\* ------------------------------------------------------------------------
None == <<"null", 0>>

Kind(v) == v[1]
Num(v) == v[2]

Abs(n) == IF n < 0 THEN -n ELSE n

\* rounding toward zero of a fixed-point number to a whole number
Trunc(n) == IF n < 0 THEN -((-n) \div Scale) * Scale ELSE (n \div Scale) * Scale

Ok(v) == [ok |-> TRUE, val |-> v, exc |-> "none"]
Raise(e) == [ok |-> FALSE, val |-> None, exc |-> e]

\* float(v)
PyFloat(v) ==
    CASE Kind(v) = "null" -> Raise("TypeError")
      [] Kind(v) = "bool" -> Ok(<<"float", Num(v) * Scale>>)
      [] Kind(v) = "int" -> Ok(<<"float", Num(v)>>)
      [] Kind(v) = "huge" -> Raise("OverflowError")
      [] Kind(v) = "float" -> Ok(v)
      [] Kind(v) = "inf" -> Ok(v)
      [] Kind(v) = "intstr" -> Ok(<<"float", Num(v)>>)
      [] Kind(v) = "floatstr" -> Ok(<<"float", Num(v)>>)
      [] Kind(v) = "hugestr" -> Ok(<<"inf", 1>>)
      [] Kind(v) = "text" -> Raise("ValueError")
      [] Kind(v) = "list" -> Raise("TypeError")

\* int(v)
PyInt(v) ==
    CASE Kind(v) = "null" -> Raise("TypeError")
      [] Kind(v) = "bool" -> Ok(<<"int", Num(v) * Scale>>)
      [] Kind(v) = "int" -> Ok(v)
      [] Kind(v) = "huge" -> Ok(v)
      [] Kind(v) = "float" -> Ok(<<"int", Trunc(Num(v))>>)
      [] Kind(v) = "inf" -> Raise("OverflowError")
      [] Kind(v) = "intstr" -> Ok(<<"int", Num(v)>>)
      [] Kind(v) = "floatstr" -> Raise("ValueError")
      [] Kind(v) = "hugestr" -> Ok(<<"huge", 1>>)
      [] Kind(v) = "text" -> Raise("ValueError")
      [] Kind(v) = "list" -> Raise("TypeError")

\* bool(v)
PyBool(v) ==
    CASE Kind(v) = "null" -> <<"bool", 0>>
      [] Kind(v) = "bool" -> v
      [] Kind(v) \in {"int", "float"} -> <<"bool", IF Num(v) = 0 THEN 0 ELSE 1>>
      [] Kind(v) \in {"huge", "inf", "intstr", "floatstr", "hugestr"} -> <<"bool", 1>>
      [] Kind(v) = "text" -> <<"bool", IF Num(v) = <<>> THEN 0 ELSE 1>>
      [] Kind(v) = "list" -> <<"bool", IF Num(v) = 0 THEN 0 ELSE 1>>

\* str(v)
PyStr(v) ==
    CASE Kind(v) = "null" -> <<"text", <<"N", "o", "n", "e">>>>
      [] Kind(v) = "bool" ->
            IF Num(v) = 1 THEN <<"text", <<"T", "r", "u", "e">>>>
                          ELSE <<"text", <<"F", "a", "l", "s", "e">>>>
      [] Kind(v) = "int" -> <<"intstr", Num(v)>>
      [] Kind(v) = "huge" -> <<"hugestr", 1>>
      [] Kind(v) = "float" -> <<"floatstr", Num(v)>>
      [] Kind(v) = "inf" -> <<"text", <<"i", "n", "f">>>>
      [] Kind(v) \in {"intstr", "floatstr", "hugestr", "text"} -> v
      [] Kind(v) = "list" -> <<"text", <<"[", "]">>>>

\* ------------------------------------------------------------------------
\* Dicts (sequences of <<key, value>> pairs, distinct keys)
\* ------------------------------------------------------------------------
Keys(d) == {d[i][1] : i \in 1..Len(d)}

\* key in d
HasKey(d, k) == \E i \in 1..Len(d) : d[i][1] = k

\* d[k]
Get(d, k) == d[CHOOSE i \in 1..Len(d) : d[i][1] = k][2]

\* d[k] = v
Put(d, k, v) ==
    IF HasKey(d, k)
    THEN [i \in 1..Len(d) |-> IF d[i][1] = k THEN <<k, v>> ELSE d[i]]
    ELSE Append(d, <<k, v>>)

\* ------------------------------------------------------------------------
\* Input schema (INPUT_TYPES) and the parameter adapter
\*   A schema entry is <<key, req_type>>.  req_type is a record
\*     [tuple   : whether req_type is a tuple,
\*      len     : its length (0 when not a tuple),
\*      tag     : str(req_type[0]), or str(req_type) when not a tuple,
\*      opts    : whether req_type[1] is a dict,
\*      hasdef  : whether that dict has the key "default",
\*      def     : the default]
\* ------------------------------------------------------------------------
Type1(tag) ==
    [tuple |-> TRUE, len |-> 1, tag |-> tag, opts |-> FALSE, hasdef |-> FALSE, def |-> None]
Type2(tag) ==
    [tuple |-> TRUE, len |-> 2, tag |-> tag, opts |-> TRUE, hasdef |-> FALSE, def |-> None]
TypeDef(tag, d) ==
    [tuple |-> TRUE, len |-> 2, tag |-> tag, opts |-> TRUE, hasdef |-> TRUE, def |-> d]
TypePlain(tag) ==
    [tuple |-> FALSE, len |-> 0, tag |-> tag, opts |-> FALSE, hasdef |-> FALSE, def |-> None]

\* the letters of str(req_type): the tag, then the dict's key and a text default
TypeStr(req_type) ==
    req_type.tag
      \o (IF req_type.hasdef
          THEN <<",", "d", "e", "f", "a", "u", "l", "t", ":">>
                 \o (IF Kind(req_type.def) = "text" THEN Num(req_type.def) ELSE <<>>)
          ELSE <<>>)

IsHidden(req_key, req_type) ==
    req_key = S_unique_id \/ StrIn(S_UNIQUE_ID, TypeStr(req_type))

IsImage(req_key, req_type) ==
    req_key = S_image \/ StrIn(S_IMAGE, TypeStr(req_type))

SetMin(s) == CHOOSE m \in s : \A n \in s : m <= n

\* a lookup that takes the first key equal ignoring case, the exact key
\* having no precedence
ParamLookup_anycase(req_key, params) ==
    LET req_key_lower == Lower(req_key)
        hits == {i \in 1..Len(params) : Lower(params[i][1]) = req_key_lower}
    IN IF hits = {} THEN None ELSE params[SetMin(hits)][2]

\* the value found in params: the exact key, else the first key equal
\* ignoring case
ParamLookup(req_key, params) ==
    IF HasKey(params, req_key)
    THEN Get(params, req_key)
    ELSE LET req_key_lower == Lower(req_key)
             hits == {i \in 1..Len(params) : Lower(params[i][1]) = req_key_lower}
         IN IF hits = {} THEN None ELSE params[SetMin(hits)][2]

\* a lookup that substitutes 0 for a value it cannot find
RawValue_zero(req_key, req_type, params) ==
    LET param_value == ParamLookup(req_key, params)
    IN IF param_value = None
       THEN IF req_type.tuple /\ req_type.len > 1 /\ req_type.opts /\ req_type.hasdef
            THEN req_type.def
            ELSE <<"int", 0>>
       ELSE param_value

\* the raw value of a required entry: params, else the declared default
RawValue(req_key, req_type, params) ==
    LET param_value == ParamLookup(req_key, params)
    IN IF param_value = None
       THEN IF req_type.tuple /\ req_type.len > 1 /\ req_type.opts /\ req_type.hasdef
            THEN req_type.def
            ELSE None
       ELSE param_value

\* a conversion that leaves None where float() fails
TryFloat_none(v) == IF PyFloat(v).ok THEN PyFloat(v).val ELSE None

\* try: float(v)  except: v
TryFloat(v) == IF PyFloat(v).ok THEN PyFloat(v).val ELSE v

\* try: int(v)  except: v
TryInt(v) == IF PyInt(v).ok THEN PyInt(v).val ELSE v

\* a conversion that parses every value as a float, whatever the tag
CoerceRequired_float(req_type, param_value) == TryFloat(param_value)

\* type-directed conversion of a required entry's value
CoerceRequired(req_type, param_value) ==
    IF req_type.tuple /\ req_type.len > 0
    THEN LET type_name == req_type.tag
         IN IF StrIn(S_FLOAT, type_name) \/ StrIn(S_float, type_name)
               THEN TryFloat(param_value)
            ELSE IF StrIn(S_INT, type_name) \/ StrIn(S_int, type_name)
               THEN TryInt(param_value)
            ELSE IF StrIn(S_BOOLEAN, type_name) \/ StrIn(S_bool, type_name)
               THEN PyBool(param_value)
            ELSE IF StrIn(S_STRING, type_name) \/ StrIn(S_str, type_name)
               THEN PyStr(param_value)
            ELSE param_value
    ELSE param_value

\* one iteration of the loop over input_types["required"]
RequiredStep(call_params, req_key, req_type, params, image) ==
    IF IsHidden(req_key, req_type)
    THEN call_params
    ELSE IF IsImage(req_key, req_type)
    THEN Put(call_params, req_key, image)
    ELSE LET param_value == RawValue(req_key, req_type, params)
         IN IF param_value # None
            THEN Put(call_params, req_key, CoerceRequired(req_type, param_value))
            ELSE call_params

RECURSIVE AdaptRequired(_, _, _, _)
AdaptRequired(call_params, required, params, image) ==
    IF required = <<>>
    THEN call_params
    ELSE AdaptRequired(
            RequiredStep(call_params, Head(required)[1], Head(required)[2], params, image),
            Tail(required), params, image)

\* conversion of an optional entry's value
CoerceOptional(opt_type, param_value) ==
    IF opt_type.tuple /\ opt_type.len > 0
    THEN LET type_name == opt_type.tag
         IN IF StrIn(S_FLOAT, type_name) THEN TryFloat(param_value)
            ELSE IF StrIn(S_INT, type_name) THEN TryInt(param_value)
            ELSE param_value
    ELSE param_value

RECURSIVE AdaptOptional(_, _, _)
AdaptOptional(call_params, optional, params) ==
    IF optional = <<>>
    THEN call_params
    ELSE LET opt_key == Head(optional)[1]
             opt_type == Head(optional)[2]
             next == IF HasKey(params, opt_key) /\ ~HasKey(call_params, opt_key)
                     THEN Put(call_params, opt_key,
                              CoerceOptional(opt_type, Get(params, opt_key)))
                     ELSE call_params
         IN AdaptOptional(next, Tail(optional), params)

\* input_types is [has_required, required, has_optional, optional]

\* the arguments process_image_preview builds
AdaptSingle(input_types, params, tensor_image) ==
    LET r == IF input_types.has_required
             THEN AdaptRequired(<<>>, input_types.required, params, tensor_image)
             ELSE <<>>
        o == IF input_types.has_optional
             THEN AdaptOptional(r, input_types.optional, params)
             ELSE r
    IN IF ~HasKey(o, S_image) /\ HasKey(params, S_image)
       THEN Put(o, S_image, tensor_image)
       ELSE o

\* the arguments process_image_preview_chain builds for one stage
AdaptChain(input_types, params, current_tensor) ==
    IF input_types.has_required
    THEN AdaptRequired(<<>>, input_types.required, params, current_tensor)
    ELSE <<>>

\* ------------------------------------------------------------------------
\* Registry lookup
\*   A registry (NODE_CLASS_MAPPINGS) is a dict from type-name to node
\*   class.  node_mappings is <<"none">> (None) or <<"ok", registry>>.
\*   The host environment env is a record
\*     [execution  : <<"ImportError">>, <<"raise">> (the import raises
\*                   something else) or <<"ok", registry>>,
\*      inst_ncm   : PromptServer.instance.NODE_CLASS_MAPPINGS,
\*                   <<"absent">>, <<"raise">> (reading the attribute
\*                   raises) or <<"ok", registry>>,
\*      inst_nodes : PromptServer.instance.nodes, <<"absent">>,
\*                   <<"other">> (no dict with the key), <<"raise">> or
\*                   <<"ok", registry>>,
\*      modules    : sys.modules in order, each [match, ncm] where match
\*                   says the name contains 'execution' or 'nodes' and ncm
\*                   is <<"absent">>, <<"raise">> or <<"ok", registry>>]
\* ------------------------------------------------------------------------
NoMappings == <<"none">>

\* truth value of node_mappings: neither None nor an empty dict
Truthy(node_mappings) == node_mappings[1] = "ok" /\ node_mappings[2] # <<>>

SetMax(s) == CHOOSE m \in s : \A n \in s : m >= n

\* a scan without the break: the last matching module wins
ScanModules_nobreak(modules, node_mappings) ==
    LET hits == {i \in 1..Len(modules) :
                    modules[i].match /\ modules[i].ncm[1] = "ok"}
    IN IF hits = {} THEN node_mappings ELSE modules[SetMax(hits)].ncm

\* for module_name in sys.modules: the first matching module that has the
\* attribute ends the scan
ScanModules(modules, node_mappings) ==
    LET hits == {i \in 1..Len(modules) :
                    modules[i].match /\ modules[i].ncm[1] = "ok"}
    IN IF hits = {} THEN node_mappings ELSE modules[SetMin(hits)].ncm

\* the lookup of process_image_preview; raised means an exception left
\* the three steps
LookupSingle(env) ==
    IF env.execution[1] = "raise"
    THEN [raised |-> TRUE, node_mappings |-> NoMappings]
    ELSE LET m1 == IF env.execution[1] = "ok" THEN env.execution ELSE NoMappings
             m2 == IF ~Truthy(m1)
                   THEN IF env.inst_ncm[1] = "ok" THEN env.inst_ncm
                        ELSE IF env.inst_ncm[1] = "raise" THEN m1
                        ELSE IF env.inst_nodes[1] = "ok" THEN env.inst_nodes
                        ELSE m1
                   ELSE m1
             m3 == IF ~Truthy(m2) THEN ScanModules(env.modules, m2) ELSE m2
         IN [raised |-> FALSE, node_mappings |-> m3]

\* the lookup of process_image_preview_chain
LookupChain(env) ==
    IF env.execution[1] = "raise"
    THEN [raised |-> TRUE, node_mappings |-> NoMappings]
    ELSE LET m1 == IF env.execution[1] = "ok" THEN env.execution
                   ELSE IF env.inst_ncm[1] = "ok" THEN env.inst_ncm
                   ELSE NoMappings
             m2 == IF ~Truthy(m1) THEN ScanModules(env.modules, m1) ELSE m1
         IN [raised |-> FALSE, node_mappings |-> m2]

\* node_mappings and node_type in node_mappings (node_type is not empty)
Resolves(node_type, node_mappings) ==
    node_type # "" /\ Truthy(node_mappings) /\ HasKey(node_mappings[2], node_type)

\* ------------------------------------------------------------------------
\* Tensors and the objects a node may return
\*   <<"tensor", [rank, h, w, px]>>   torch.Tensor; px in units of 1/255
\*   <<"ndarray", [rank, h, w, px]>>  numpy array
\*   <<"pylist", [rank, h, w, px]>>   nested list of numbers
\*   <<"tuple", s>>                   tuple with the elements s
\*   <<"obj", [to, cpu]>>             other object: to is "absent", "tensor",
\*                                    "text" or "raise" (what .to() gives),
\*                                    cpu whether it has the attribute
\*   and the values above
\* ------------------------------------------------------------------------
IsTensor(x) == x[1] = "tensor"
Rank(x) == x[2].rank

\* torch.from_numpy(img_array.astype(np.float32) / 255.0).unsqueeze(0)
ToTensor(img) == <<"tensor", [rank |-> 4, h |-> img.h, w |-> img.w, px |-> img.px]>>

Scalar0 == <<"tensor", [rank |-> 0, h |-> 0, w |-> 0, px |-> <<>>]>>

\* torch.tensor(x, dtype=torch.float32)
TorchTensor(x) ==
    CASE x[1] \in {"tensor", "ndarray", "pylist"} -> Ok(<<"tensor", x[2]>>)
      [] x[1] \in {"bool", "int", "float", "inf"} -> Ok(Scalar0)
      [] OTHER -> Raise("TypeError")

\* hasattr(result, 'to') / result.to(torch.float32)
HasTo(x) == x[1] = "tensor" \/ (x[1] = "obj" /\ x[2].to # "absent")
CallTo(x) ==
    CASE x[1] = "tensor" -> Ok(x)
      [] x[1] = "obj" /\ x[2].to = "tensor" ->
            Ok(<<"tensor", [rank |-> 4, h |-> 1, w |-> 1, px |-> <<0>>]>>)
      [] x[1] = "obj" /\ x[2].to = "text" -> Ok(<<"text", <<"x">>>>)
      [] OTHER -> Raise("RuntimeError")

HasCpu(x) == x[1] = "tensor" \/ (x[1] = "obj" /\ x[2].cpu)

\* torch.from_numpy(x).float()
FromNumpy(x) ==
    IF x[1] = "ndarray" THEN Ok(<<"tensor", x[2]>>) ELSE Raise("TypeError")

\* the conversion of a result that is neither a tuple nor a tensor
ConvertOther(result) ==
    IF HasTo(result) THEN CallTo(result)
    ELSE IF HasCpu(result) THEN FromNumpy(result)
    ELSE TorchTensor(result)

\* processed_tensor after the return value handling of process_image_preview
NormalizeSingle(result) ==
    IF result = None
    THEN None
    ELSE LET p == IF result[1] = "tuple"
                  THEN IF Len(result[2]) > 0
                       THEN IF IsTensor(result[2][1]) THEN result[2][1]
                            ELSE IF TorchTensor(result[2][1]).ok
                                 THEN TorchTensor(result[2][1]).val
                                 ELSE None
                       ELSE None
                  ELSE IF IsTensor(result) THEN result
                  ELSE IF ConvertOther(result).ok THEN ConvertOther(result).val
                  ELSE None
         IN IF p # None
            THEN IF ~IsTensor(p) THEN None
                 ELSE IF Rank(p) < 3 THEN None
                 ELSE p
            ELSE None

\* current_tensor after the return value handling of one chain stage, and
\* whether the stage reached the success message
NormalizeChain(current_tensor, result) ==
    IF result = None
    THEN [tensor |-> current_tensor, ok |-> FALSE]
    ELSE LET conv == ConvertOther(result)
             failed == result[1] # "tuple" /\ ~IsTensor(result) /\ ~conv.ok
             c == IF result[1] = "tuple"
                  THEN IF Len(result[2]) > 0 THEN result[2][1] ELSE current_tensor
                  ELSE IF IsTensor(result) THEN result
                  ELSE IF conv.ok THEN conv.val
                  ELSE current_tensor
         IN IF failed
            THEN [tensor |-> current_tensor, ok |-> FALSE]
            ELSE IF ~IsTensor(c) \/ Rank(c) < 3
                 THEN [tensor |-> c, ok |-> FALSE]
                 ELSE [tensor |-> c, ok |-> TRUE]

\* ------------------------------------------------------------------------
\* Node classes
\*   [has_INPUT_TYPES, input_types, FUNCTION, methods, args, imgkey, ret,
\*    effect]
\*   FUNCTION is "absent" or the declared name; methods the names of the
\*   instance's callable attributes; args the parameter names of the entry
\*   point (all without default); imgkey the parameter it reads the image
\*   from; ret what it returns; effect what it does to the pixels.
\* ------------------------------------------------------------------------
CommonNames == <<"execute", "process", "run", "apply", "transform">>

\* func_name: the declared FUNCTION, else the first conventional name
FuncName(cls) ==
    IF cls.FUNCTION # "absent"
    THEN cls.FUNCTION
    ELSE LET hits == {i \in 1..Len(CommonNames) : CommonNames[i] \in cls.methods}
         IN IF hits = {} THEN "" ELSE CommonNames[SetMin(hits)]

\* func_name and hasattr(node_instance, func_name)
HasFunc(cls) == FuncName(cls) # "" /\ FuncName(cls) \in cls.methods

Effect(e, t) ==
    [t EXCEPT !.px = [i \in 1..Len(t.px) |->
                        IF e = "invert" THEN 255 - t.px[i] ELSE t.px[i] \div 2]]

\* func(**call_params): Python raises TypeError when the keywords are not
\* the parameters of the function; the node raises on an image argument
\* that is not a tensor
CallNode(cls, call_params) ==
    IF Keys(call_params) # cls.args
    THEN [raised |-> TRUE, result |-> None]
    ELSE LET image == Get(call_params, cls.imgkey)
         IN IF ~IsTensor(image) \/ cls.ret = "raise"
            THEN [raised |-> TRUE, result |-> None]
            ELSE LET t == Effect(cls.effect, image[2])
                     flat == [rank |-> 2, h |-> t.h, w |-> t.w, px |-> t.px]
                     cube == [rank |-> 3, h |-> t.h, w |-> t.w, px |-> t.px]
                     r == CASE cls.ret = "none" -> None
                            [] cls.ret = "empty" -> <<"tuple", <<>>>>
                            [] cls.ret = "tuple_tensor" -> <<"tuple", <<<<"tensor", t>>>>>>
                            [] cls.ret = "tuple_rank2" -> <<"tuple", <<<<"tensor", flat>>>>>>
                            [] cls.ret = "tuple_rank4" ->
                                  <<"tuple", <<<<"tensor", [t EXCEPT !.rank = 4]>>>>>>
                            [] cls.ret = "tuple_list" -> <<"tuple", <<<<"pylist", t>>>>>>
                            [] cls.ret = "tuple_text" -> <<"tuple", <<<<"text", <<"x">>>>>>>>
                            [] cls.ret = "tensor" -> <<"tensor", t>>
                            [] cls.ret = "rank2" -> <<"tensor", flat>>
                            [] cls.ret = "rank3" -> <<"tensor", cube>>
                            [] cls.ret = "ndarray" -> <<"ndarray", t>>
                            [] cls.ret = "obj_to_text" ->
                                  <<"obj", [to |-> "text", cpu |-> FALSE]>>
                            [] cls.ret = "obj_cpu" ->
                                  <<"obj", [to |-> "absent", cpu |-> TRUE]>>
                            [] cls.ret = "text" -> <<"text", <<"x">>>>
                 IN [raised |-> FALSE, result |-> r]

\* ------------------------------------------------------------------------
\* Image decoding and encoding
\*   image_data is <<"nonstring">>, <<"garbage">> (a string that does not
\*   decode), <<"uri_nocomma">> (starts with "data:image", has no comma),
\*   <<"flat", img>> (decodes to a 2-dimensional array), <<"b64", img>> or
\*   <<"uri", img>> (data-URI prefixed).
\* ------------------------------------------------------------------------
NoImage == [h |-> 0, w |-> 0, px |-> <<>>]

\* a parse without the check of len(img_array.shape)
Decode_anyshape(image_data) ==
    CASE image_data[1] \in {"nonstring", "garbage", "uri_nocomma"} ->
            [ok |-> FALSE, img |-> NoImage]
      [] image_data[1] \in {"flat", "b64", "uri"} -> [ok |-> TRUE, img |-> image_data[2]]

\* the parse of image_data, up to the check of len(img_array.shape)
Decode(image_data) ==
    CASE image_data[1] = "nonstring" -> [ok |-> FALSE, img |-> NoImage]
      [] image_data[1] = "garbage" -> [ok |-> FALSE, img |-> NoImage]
      [] image_data[1] = "uri_nocomma" -> [ok |-> FALSE, img |-> NoImage]
      [] image_data[1] = "flat" -> [ok |-> FALSE, img |-> NoImage]
      [] image_data[1] \in {"b64", "uri"} -> [ok |-> TRUE, img |-> image_data[2]]

\* (torch.clamp(t, 0, 1) * 255).cpu().numpy().astype(np.uint8)[0], then
\* Image.fromarray, the JPEG save and the width and height of the response
Encode(t) ==
    IF ~IsTensor(t)
    THEN [ok |-> FALSE, width |-> 0, height |-> 0, px |-> <<>>]
    ELSE IF Rank(t) = 4
    THEN [ok |-> TRUE, width |-> t[2].w, height |-> t[2].h, px |-> t[2].px]
    ELSE IF Rank(t) = 3
    THEN [ok |-> TRUE, width |-> 3, height |-> t[2].w,
          px |-> SubSeq(t[2].px, 1, t[2].w)]
    ELSE [ok |-> FALSE, width |-> 0, height |-> 0, px |-> <<>>]

NoResponse == [status |-> 0, success |-> FALSE, width |-> 0, height |-> 0, px |-> <<>>]
ErrorResponse(status) ==
    [status |-> status, success |-> FALSE, width |-> 0, height |-> 0, px |-> <<>>]
SuccessResponse(e) ==
    [status |-> 200, success |-> TRUE, width |-> e.width, height |-> e.height,
     px |-> e.px]

\* ------------------------------------------------------------------------
\* The generic fallback transform
\*   While it is processed a pixel is a fixed-point number in units of
\*   1/PxUnit; cv2 is modelled on gray pixels, where the RGB -> HSV -> RGB
\*   round trip keeps the 8-bit value.
\* ------------------------------------------------------------------------
PxUnit == 100

\* 0.0001 in units of 1/Scale
Tolerance == Scale \div 10000

\* the magnitude of float(param_value); inf is beyond every threshold
FloatNum(f) == IF Kind(f) = "inf" THEN 1000 * Scale ELSE Num(f)

\* division rounding toward zero
DivT(a, b) == IF a < 0 THEN -((-a) \div b) ELSE a \div b

Clip(x, lo, hi) == IF x < lo THEN lo ELSE IF x > hi THEN hi ELSE x

\* a skip that only knows the value 0
IsNoOp_zero(n) == Abs(n) < Tolerance

\* abs(value) < 0.0001 or abs(value - 1.0) < 0.0001
IsNoOp(n) == Abs(n) < Tolerance \/ Abs(n - Scale) < Tolerance

\* factor, in thousandths:
\*   value if value > 0 else 1.0 / abs(value) if abs(value) > 0.1 else 1.0
\*   clipped to [0.1, 10.0]
BrightnessFactor(n) ==
    LET raw == IF n > 0 THEN n \div (Scale \div 1000)
               ELSE IF Abs(n) > Scale \div 10
                    THEN (1000 * 1000) \div (Abs(n) \div (Scale \div 1000))
                    ELSE 1000
    IN Clip(raw, 100, 10000)

\* 1. processed_img * factor, when 0.1 <= abs(value) <= 10.0
Brightness(px, n) ==
    IF Scale \div 10 <= Abs(n) /\ Abs(n) <= 10 * Scale
    THEN [i \in 1..Len(px) |-> (px[i] * BrightnessFactor(n)) \div 1000]
    ELSE px

\* 2. processed_img + value * 0.3, when abs(value) > 0.01
Contrast(px, n) ==
    IF Abs(n) > Scale \div 100
    THEN [i \in 1..Len(px) |-> px[i] + DivT(n * 3, 10 * (Scale \div PxUnit))]
    ELSE px

\* np.clip(processed_img, 0, 255).astype(np.uint8), as whole numbers
ToUint8(px) == [i \in 1..Len(px) |-> Clip(px[i], 0, 255 * PxUnit) \div PxUnit]

\* 3. the HSV adjustment, when cv2 is there and abs(value) > 0.01
HsvAdjust(px, n, use_cv2) ==
    IF use_cv2 /\ Abs(n) > Scale \div 100
    THEN [i \in 1..Len(px) |-> ToUint8(px)[i] * PxUnit]
    ELSE px

\* BORDER_REFLECT_101 index into 0..n-1
Reflect(i, n) ==
    IF n = 1 THEN 0
    ELSE IF i < 0 THEN -i
    ELSE IF i >= n THEN 2 * n - 2 - i
    ELSE i

\* min(abs(value) * 0.05, 0.5), in thousandths
KernelStrength(n) ==
    IF Abs(n) >= 10 * Scale THEN 500 ELSE (Abs(n) * 50) \div Scale

\* 4. cv2.filter2D with [[0,-0.3,0],[-0.3,2.2,-0.3],[0,-0.3,0]] * strength,
\*    when cv2 is there and abs(value) > 0.1
Sharpen(px, h, w, n, use_cv2) ==
    IF use_cv2 /\ Abs(n) > Scale \div 10
    THEN LET u == ToUint8(px)
             at(r, c) == u[Reflect(r, h) * w + Reflect(c, w) + 1]
             sum(r, c) == 22 * at(r, c)
                            - 3 * (at(r - 1, c) + at(r + 1, c)
                                     + at(r, c - 1) + at(r, c + 1))
         IN [i \in 1..Len(px) |->
                LET r == (i - 1) \div w
                    c == (i - 1) % w
                IN Clip((KernelStrength(n) * sum(r, c) + 5000) \div 10000, 0, 255)
                     * PxUnit]
    ELSE px

\* the body of the loop for one numeric value that is not skipped
FallbackValue(px, h, w, n, use_cv2) ==
    LET p1 == Brightness(px, n)
        p2 == Contrast(p1, n)
        p3 == HsvAdjust(p2, n, use_cv2)
        p4 == Sharpen(p3, h, w, n, use_cv2)
    IN [i \in 1..Len(p4) |-> Clip(p4[i], 0, 255 * PxUnit)]

\* for param_name, param_value in params.items(): ...
\* raised: float() raised something other than ValueError or TypeError
RECURSIVE FallbackLoop(_, _, _, _, _)
FallbackLoop(px, h, w, params, use_cv2) ==
    IF params = <<>>
    THEN [raised |-> FALSE, px |-> px]
    ELSE LET f == PyFloat(Head(params)[2])
         IN IF ~f.ok
            THEN IF f.exc \in {"ValueError", "TypeError"}
                 THEN FallbackLoop(px, h, w, Tail(params), use_cv2)
                 ELSE [raised |-> TRUE, px |-> px]
            ELSE IF IsNoOp(FloatNum(f.val))
                 THEN FallbackLoop(px, h, w, Tail(params), use_cv2)
                 ELSE FallbackLoop(FallbackValue(px, h, w, FloatNum(f.val), use_cv2),
                                   h, w, Tail(params), use_cv2)

\* the fallback of process_image_preview: img_array.copy().astype(float32),
\* the loop, astype(np.uint8)
Fallback(img, params, use_cv2) ==
    LET start == [i \in 1..Len(img.px) |-> img.px[i] * PxUnit]
        r == FallbackLoop(start, img.h, img.w, params, use_cv2)
    IN [raised |-> r.raised,
        img |-> [h |-> img.h, w |-> img.w,
                 px |-> [i \in 1..Len(r.px) |-> r.px[i] \div PxUnit]]]

\* ------------------------------------------------------------------------
\* The node path of process_image_preview and one stage of the chain
\* ------------------------------------------------------------------------
NoCall == [raised |-> FALSE, result |-> None]

\* a stage (or the node path) that ends before the entry point is called
NotInvoked(tensor, outcome) ==
    [tensor |-> tensor, outcome |-> outcome, invoked |-> FALSE,
     call_params |-> <<>>, call |-> NoCall]

\* a skip that loses the tensor it should carry forward
SkipStage_drop(current_tensor) == NotInvoked(None, "unresolved")

\* the stage's continue for an empty or unknown type-name, or no registry
SkipStage(current_tensor) == NotInvoked(current_tensor, "unresolved")

\* the stage's outcome once the entry point has been called
StageResult(current_tensor, call_params, call) ==
    IF call.raised
    THEN [tensor |-> current_tensor, outcome |-> "raised", invoked |-> TRUE,
          call_params |-> call_params, call |-> call]
    ELSE LET n == NormalizeChain(current_tensor, call.result)
         IN [tensor |-> n.tensor, outcome |-> IF n.ok THEN "ok" ELSE "failed",
             invoked |-> TRUE, call_params |-> call_params, call |-> call]

\* the body of "for node_info in chain"
RunStage(node_info, node_mappings, current_tensor) ==
    IF ~Resolves(node_info.type, node_mappings)
    THEN SkipStage(current_tensor)
    ELSE LET cls == Get(node_mappings[2], node_info.type)
         IN IF ~cls.has_INPUT_TYPES
            THEN NotInvoked(current_tensor, "noschema")
            ELSE IF ~HasFunc(cls)
            THEN NotInvoked(current_tensor, "nofunc")
            ELSE LET call_params ==
                         AdaptChain(cls.input_types, node_info.params, current_tensor)
                 IN StageResult(current_tensor, call_params,
                                CallNode(cls, call_params))

\* "if node_type:" ... of process_image_preview; tensor is processed_tensor
NodePath(node_type, params, env, tensor_image) ==
    LET l == LookupSingle(env)
    IN IF node_type = ""
       THEN NotInvoked(None, "unresolved")
       ELSE IF l.raised
       THEN NotInvoked(None, "lookup_raised")
       ELSE IF ~Resolves(node_type, l.node_mappings)
       THEN NotInvoked(None, "unresolved")
       ELSE LET cls == Get(l.node_mappings[2], node_type)
            IN IF ~cls.has_INPUT_TYPES
               THEN NotInvoked(None, "noschema")
               ELSE IF ~HasFunc(cls)
               THEN NotInvoked(None, "nofunc")
               ELSE LET call_params == AdaptSingle(cls.input_types, params, tensor_image)
                        call == CallNode(cls, call_params)
                        t == IF call.raised THEN None ELSE NormalizeSingle(call.result)
                    IN [tensor |-> t,
                        outcome |-> IF call.raised THEN "raised"
                                    ELSE IF t = None THEN "failed" ELSE "ok",
                        invoked |-> TRUE, call_params |-> call_params, call |-> call]

\* "if processed_tensor is None:" ... to the response of process_image_preview
RespondSingle(processed_tensor, img_array, params, use_cv2) ==
    LET f == Fallback(img_array, params, use_cv2)
        t == IF processed_tensor = None THEN ToTensor(f.img) ELSE processed_tensor
        e == Encode(t)
    IN IF processed_tensor = None /\ f.raised
       THEN ErrorResponse(500)
       ELSE IF e.ok THEN SuccessResponse(e) ELSE ErrorResponse(500)

\* the conversion of current_tensor to the response of the chain handler
RespondChain(current_tensor) ==
    LET e == Encode(current_tensor)
    IN IF e.ok THEN SuccessResponse(e) ELSE ErrorResponse(500)

\* data.get("chain", []): the chain field is <<"missing">>, <<"null">> or
\* <<"list", entries>>
ChainOf(field) ==
    CASE field[1] = "missing" -> <<"list", <<>>>>
      [] OTHER -> field

\* a check that only looks for a null chain
ChainEmpty_nullonly(c) == c[1] = "null"

\* not chain or len(chain) == 0
ChainEmpty(c) == c[1] = "null" \/ Len(c[2]) = 0

\* ------------------------------------------------------------------------
\* The requests and hosts the model runs the handlers on
\* ------------------------------------------------------------------------
K_amt == <<"a", "m", "t">>
K_Amt == <<"A", "m", "t">>
K_AMT == <<"A", "M", "T">>
K_pic == <<"p", "i", "c">>
K_mode == <<"m", "o", "d", "e">>

V_two == <<"float", 2 * Scale>>
V_one == <<"int", Scale>>
V_huge == <<"huge", 1>>
V_abc == <<"text", <<"a", "b", "c">>>>

\* INPUT_TYPES of the catalogue's nodes: an image and a float with a default
StdInputTypes ==
    [has_required |-> TRUE,
     required |-> << <<S_image, Type1(S_IMAGE)>>,
                     <<K_amt, TypeDef(S_FLOAT, <<"float", Scale>>)>> >>,
     has_optional |-> FALSE,
     optional |-> <<>>]

StdClass(ret, effect) ==
    [has_INPUT_TYPES |-> TRUE, input_types |-> StdInputTypes,
     FUNCTION |-> "go", methods |-> {"go"},
     args |-> {S_image, K_amt}, imgkey |-> S_image,
     ret |-> ret, effect |-> effect]

Registry ==
    << <<"Invert", StdClass("tuple_tensor", "invert")>>,
       <<"Halve", [StdClass("tensor", "halve") EXCEPT
                      !.FUNCTION = "absent", !.methods = {"run", "process"}]>>,
       <<"Raises", StdClass("raise", "invert")>>,
       <<"NeedsMode", [StdClass("tuple_tensor", "invert") EXCEPT
                      !.args = {S_image, K_amt, K_mode}]>>,
       <<"RetNone", StdClass("none", "invert")>>,
       <<"RetEmpty", StdClass("empty", "invert")>>,
       <<"RetText", StdClass("tuple_text", "invert")>>,
       <<"RetList", StdClass("tuple_list", "invert")>>,
       <<"RetFlat", StdClass("tuple_rank2", "invert")>>,
       <<"NoSchema", [StdClass("tuple_tensor", "invert") EXCEPT
                      !.has_INPUT_TYPES = FALSE]>>,
       <<"NoFunc", [StdClass("tuple_tensor", "invert") EXCEPT
                      !.FUNCTION = "absent", !.methods = {"preview"}]>> >>

TypeNames == {"", "Unknown"} \cup Keys(Registry)

\* a host without any registry
BareHost ==
    [execution |-> <<"ImportError">>, inst_ncm |-> <<"absent">>,
     inst_nodes |-> <<"absent">>, modules |-> <<>>]

Hosts ==
    { [execution |-> <<"ok", Registry>>, inst_ncm |-> <<"absent">>,
       inst_nodes |-> <<"absent">>, modules |-> <<>>],
      [execution |-> <<"ImportError">>, inst_ncm |-> <<"absent">>,
       inst_nodes |-> <<"absent">>,
       modules |-> <<[match |-> TRUE, ncm |-> <<"ok", Registry>>]>>],
      BareHost,
      [execution |-> <<"raise">>, inst_ncm |-> <<"ok", Registry>>,
       inst_nodes |-> <<"absent">>, modules |-> <<>>] }

Picture == [h |-> 1, w |-> 2, px |-> <<10, 200>>]

ImageData ==
    { <<"nonstring">>, <<"garbage">>, <<"uri_nocomma">>, <<"flat", Picture>>,
      <<"b64", Picture>>, <<"uri", Picture>> }

\* the params of a request to /image_preview/process
SingleParams ==
    { <<>>, << <<K_amt, V_two>> >>, << <<K_amt, V_one>> >>,
      << <<K_Amt, V_abc>> >>, << <<K_amt, V_huge>> >>,
      << <<K_amt, V_two>>, <<K_mode, V_abc>> >> }

\* the entries of a chain
NodeInfos ==
    { [type |-> t, params |-> <<>>] : t \in TypeNames }
      \cup { [type |-> "Invert", params |-> << <<K_Amt, V_abc>> >>],
             [type |-> "NeedsMode", params |-> << <<K_mode, V_abc>> >>] }

SeqsUpTo(S, n) == UNION { [1..k -> S] : k \in 0..n }

ChainFields ==
    { <<"missing">>, <<"null">> } \cup { <<"list", c>> : c \in SeqsUpTo(NodeInfos, MaxChain) }

\* ------------------------------------------------------------------------
\* State
\* ------------------------------------------------------------------------
VARIABLES
    endpoint,          \* "process" or "process_chain"
    image_data,        \* the request's image_data
    node_type,         \* the request's node_type (process)
    params,            \* the request's params (process)
    chain,             \* the request's chain field (process_chain)
    env,               \* the host's registries
    use_cv2,           \* whether cv2 can be imported
    pc,                \* the handler's position
    steps,             \* what the handler has done: "decode", "lookup"
    img_array,         \* the decoded array
    tensor_image,      \* the input tensor
    node_mappings,     \* the registry the chain handler found
    current_tensor,    \* the chain's tensor (process_chain)
    processed_tensor,  \* the node's tensor, or None (process)
    idx,               \* the chain entry the loop is at
    stages,            \* per finished stage (or node path): type, tensor
                       \* before and after, outcome, call
    response,          \* the response, status 0 while there is none
    input_types,       \* the schema the adapter is applied to
    call_params,       \* the arguments the adapter built
    found,             \* whether the lookup resolved node_type
    processed_img      \* the array the fallback transform produced

vars == <<endpoint, image_data, node_type, params, chain, env, use_cv2, pc, steps,
          img_array, tensor_image, node_mappings, current_tensor,
          processed_tensor, idx, stages, response, input_types, call_params,
          found, processed_img>>

\* what the handlers' actions leave alone: the parts of the state that hold
\* the inputs and outputs of the adapter, the lookup and the fallback when
\* these are run on their own
bench == <<input_types, call_params, found, processed_img>>

NoInputTypes ==
    [has_required |-> FALSE, required |-> <<>>, has_optional |-> FALSE, optional |-> <<>>]

InitBench ==
    /\ input_types = NoInputTypes
    /\ call_params = <<>>
    /\ found = FALSE
    /\ processed_img = NoImage

request == <<endpoint, image_data, node_type, params, chain, env, use_cv2>>

InitWork ==
    /\ pc = "start"
    /\ steps = {}
    /\ img_array = NoImage
    /\ tensor_image = None
    /\ node_mappings = NoMappings
    /\ current_tensor = None
    /\ processed_tensor = None
    /\ idx = 1
    /\ stages = <<>>
    /\ response = NoResponse

Init ==
    /\ endpoint \in {"process", "process_chain"}
    /\ image_data \in ImageData
    /\ env \in Hosts
    /\ IF endpoint = "process"
       THEN /\ node_type \in TypeNames
            /\ params \in SingleParams
            /\ chain = <<"missing">>
            /\ use_cv2 \in BOOLEAN
       ELSE /\ node_type = ""
            /\ params = <<>>
            /\ chain \in ChainFields
            /\ use_cv2 = FALSE
    /\ InitWork
    /\ InitBench

StageEntry(type, before, r) ==
    [type |-> type, before |-> before, after |-> r.tensor, outcome |-> r.outcome,
     invoked |-> r.invoked, call_params |-> r.call_params, call |-> r.call]

\* process_image_preview: the parse of the image
ProcessDecode ==
    /\ endpoint = "process" /\ pc = "start"
    /\ steps' = steps \cup {"decode"}
    /\ IF Decode(image_data).ok
       THEN /\ img_array' = Decode(image_data).img
            /\ tensor_image' = ToTensor(Decode(image_data).img)
            /\ pc' = "node"
            /\ response' = response
       ELSE /\ response' = ErrorResponse(500)
            /\ pc' = "done"
            /\ UNCHANGED <<img_array, tensor_image>>
    /\ UNCHANGED <<request, bench, node_mappings, current_tensor, processed_tensor, idx, stages>>

\* process_image_preview: the call of the node
ProcessNode ==
    /\ endpoint = "process" /\ pc = "node"
    /\ LET r == NodePath(node_type, params, env, tensor_image)
       IN /\ processed_tensor' = r.tensor
          /\ stages' = Append(stages, StageEntry(node_type, tensor_image, r))
    /\ steps' = steps \cup (IF node_type # "" THEN {"lookup"} ELSE {})
    /\ pc' = "respond"
    /\ UNCHANGED <<request, bench, img_array, tensor_image, node_mappings, current_tensor,
                   idx, response>>

\* process_image_preview: the fallback and the response
ProcessRespond ==
    /\ endpoint = "process" /\ pc = "respond"
    /\ response' = RespondSingle(processed_tensor, img_array, params, use_cv2)
    /\ pc' = "done"
    /\ UNCHANGED <<request, bench, steps, img_array, tensor_image, node_mappings,
                   current_tensor, processed_tensor, idx, stages>>

\* process_image_preview_chain: the check of the chain
ChainCheck ==
    /\ endpoint = "process_chain" /\ pc = "start"
    /\ IF ChainEmpty(ChainOf(chain))
       THEN response' = ErrorResponse(400) /\ pc' = "done"
       ELSE response' = response /\ pc' = "decode"
    /\ UNCHANGED <<request, bench, steps, img_array, tensor_image, node_mappings,
                   current_tensor, processed_tensor, idx, stages>>

\* process_image_preview_chain: the parse of the image
ChainDecode ==
    /\ endpoint = "process_chain" /\ pc = "decode"
    /\ steps' = steps \cup {"decode"}
    /\ IF Decode(image_data).ok
       THEN /\ img_array' = Decode(image_data).img
            /\ tensor_image' = ToTensor(Decode(image_data).img)
            /\ current_tensor' = ToTensor(Decode(image_data).img)
            /\ pc' = "lookup"
            /\ response' = response
       ELSE /\ response' = ErrorResponse(500)
            /\ pc' = "done"
            /\ UNCHANGED <<img_array, tensor_image, current_tensor>>
    /\ UNCHANGED <<request, bench, node_mappings, processed_tensor, idx, stages>>

\* process_image_preview_chain: the search for the registry
ChainLookup ==
    /\ endpoint = "process_chain" /\ pc = "lookup"
    /\ steps' = steps \cup {"lookup"}
    /\ IF LookupChain(env).raised
       THEN /\ response' = ErrorResponse(500)
            /\ pc' = "done"
            /\ node_mappings' = node_mappings
       ELSE /\ node_mappings' = LookupChain(env).node_mappings
            /\ pc' = "stage"
            /\ response' = response
    /\ UNCHANGED <<request, bench, img_array, tensor_image, current_tensor,
                   processed_tensor, idx, stages>>

\* process_image_preview_chain: one iteration of the loop over the chain
ChainStage ==
    /\ endpoint = "process_chain" /\ pc = "stage"
    /\ idx <= Len(ChainOf(chain)[2])
    /\ LET node_info == ChainOf(chain)[2][idx]
           r == RunStage(node_info, node_mappings, current_tensor)
       IN /\ current_tensor' = r.tensor
          /\ stages' = Append(stages, StageEntry(node_info.type, current_tensor, r))
    /\ idx' = idx + 1
    /\ UNCHANGED <<request, bench, pc, steps, img_array, tensor_image, node_mappings,
                   processed_tensor, response>>

\* process_image_preview_chain: the response after the loop
ChainRespond ==
    /\ endpoint = "process_chain" /\ pc = "stage"
    /\ idx > Len(ChainOf(chain)[2])
    /\ response' = RespondChain(current_tensor)
    /\ pc' = "done"
    /\ UNCHANGED <<request, bench, steps, img_array, tensor_image, node_mappings,
                   current_tensor, processed_tensor, idx, stages>>

Next ==
    \/ ProcessDecode
    \/ ProcessNode
    \/ ProcessRespond
    \/ ChainCheck
    \/ ChainDecode
    \/ ChainLookup
    \/ ChainStage
    \/ ChainRespond

Spec == Init /\ [][Next]_vars

\* ------------------------------------------------------------------------
\* Properties of the handlers
\* ------------------------------------------------------------------------
Finished == pc = "done"

GoodImage == image_data[1] \in {"b64", "uri"}

ChainEntries == IF chain[1] = "list" THEN chain[2] ELSE <<>>

\* an invocation that failed: the entry point raised, returned None, an
\* empty tuple, a tuple whose element 0 is not a tensor, or a value of
\* rank below 3
InvocationFailed(call) ==
    \/ call.raised
    \/ call.result = None
    \/ /\ call.result[1] = "tuple"
       /\ \/ Len(call.result[2]) = 0
          \/ call.result[2][1][1] # "tensor"
          \/ call.result[2][1][2].rank < 3
    \/ call.result[1] = "tensor" /\ call.result[2].rank < 3

\* C1: in process_chain, after a stage whose node resolves and whose
\* invocation fails, the current tensor is the tensor that was current
\* before the stage, and the next stage starts from that tensor.
C1_FailedStageKeepsTensor ==
    endpoint = "process_chain" =>
        \A i \in 1..Len(stages) :
            (stages[i].invoked /\ InvocationFailed(stages[i].call)) =>
                /\ stages[i].after = stages[i].before
                /\ (i < Len(stages) => stages[i + 1].before = stages[i].before)

\* C2: a process_chain request with a decodable 3-dimensional image and a
\* non-empty chain ends with a success response, whatever its stages do
\* (the registry search itself not raising).
C2_ChainAlwaysSucceeds ==
    ( /\ endpoint = "process_chain"
      /\ Finished
      /\ GoodImage
      /\ ChainEntries # <<>>
      /\ env.execution[1] # "raise" )
        => response.success /\ response.status = 200

\* what the chain handler cannot resolve: an empty type-name, no registry,
\* or a registry without the name
Unresolvable(type) ==
    \/ type = ""
    \/ node_mappings[1] # "ok"
    \/ node_mappings[2] = <<>>
    \/ type \notin Keys(node_mappings[2])

\* C3: a chain stage whose type-name does not resolve leaves the current
\* tensor unchanged and calls nothing; a chain of such stages ends with the
\* decoded input, and a chain whose last stage does not resolve ends with
\* the tensor the stage before it left.
C3_UnresolvedStageSkips ==
    endpoint = "process_chain" =>
        /\ \A i \in 1..Len(stages) :
              Unresolvable(stages[i].type) =>
                  /\ stages[i].after = stages[i].before
                  /\ ~stages[i].invoked
                  /\ (i = Len(stages) => current_tensor = stages[i].before)
        /\ ( /\ pc = "stage" \/ stages # <<>>
             /\ \A i \in 1..Len(stages) : Unresolvable(stages[i].type) )
              => current_tensor = ToTensor(img_array)
        /\ ( /\ Finished /\ response.status # 0 /\ stages # <<>>
             /\ \A i \in 1..Len(stages) : Unresolvable(stages[i].type) )
              => /\ response.success
                 /\ response.px = img_array.px
                 /\ response.width = img_array.w
                 /\ response.height = img_array.h

C3_Witness ==
    /\ endpoint = "process_chain" /\ Finished
    /\ Len(stages) = 2
    /\ stages[1].outcome = "ok"
    /\ stages[2].type = "Unknown"
    /\ stages[1].after # stages[1].before
    /\ current_tensor = stages[1].after
    /\ response.success

\* C4: at /image_preview/process, with a decodable image, every failure of
\* the node path ends in a success response that carries the fallback
\* transform of the input, with the input's width and height.
C4_NodeFailureFallsBack ==
    ( /\ endpoint = "process"
      /\ Finished
      /\ GoodImage
      /\ Len(stages) = 1
      /\ stages[1].after = None )
        => /\ response.success
           /\ response.status = 200
           /\ response.width = img_array.w
           /\ response.height = img_array.h

\* the chain field is missing, null or an empty list
EmptyChainRequest == chain[1] \in {"missing", "null"} \/ chain[2] = <<>>

\* C5: process_chain with an empty or missing chain answers 400 with
\* success false, before the image is decoded, the registry looked up or a
\* node called, whatever image_data is.
C5_EmptyChainIs400 ==
    (endpoint = "process_chain" /\ EmptyChainRequest /\ pc # "start") =>
        /\ Finished
        /\ response.status = 400
        /\ ~response.success
        /\ steps = {}
        /\ stages = <<>>
        /\ img_array = NoImage

C5_Witness ==
    /\ endpoint = "process_chain" /\ Finished
    /\ chain = <<"list", <<>>>>
    /\ image_data = <<"garbage">>
    /\ response.status = 400

\* C6: on both endpoints (the chain not empty) image data that is no
\* string, does not decode, or does not decode to a 3-dimensional array
\* ends in a response with success false and status 500; no node is called
\* and the handler always ends with a response.
C6_BadImageIs500 ==
    /\ (Finished /\ ~GoodImage /\ (endpoint = "process" \/ ~EmptyChainRequest)) =>
          /\ response.status = 500
          /\ ~response.success
          /\ stages = <<>>
          /\ "lookup" \notin steps
    /\ Finished => response.status \in {200, 400, 500}

C6_Witness ==
    /\ Finished
    /\ endpoint = "process_chain"
    /\ image_data[1] = "flat"
    /\ Len(ChainEntries) = 2
    /\ response.status = 500

\* ------------------------------------------------------------------------
\* The parameter adapter on its own: every schema and params of the sets
\* below, for both handlers
\* ------------------------------------------------------------------------
MaxSchema == 2

V_text15 == <<"floatstr", 3 * (Scale \div 2)>>
V_true == <<"bool", 1>>

\* the entries schemas are made of, in declaration order
SchemaList ==
    << <<S_image, Type1(S_IMAGE)>>,
       <<K_pic, Type1(S_IMAGE)>>,
       <<S_unique_id, TypePlain(S_UNIQUE_ID)>>,
       <<K_mode, TypePlain(S_FLOAT)>>,
       <<K_amt, Type1(S_FLOAT)>>,
       <<K_amt, TypeDef(S_FLOAT, V_text15)>>,
       <<K_amt, Type2(S_INT)>>,
       <<K_amt, TypeDef(S_INT, V_one)>>,
       <<K_amt, Type1(S_BOOLEAN)>>,
       <<K_amt, Type1(S_STRING)>>,
       <<K_amt, Type1(S_MASK)>>,
       <<K_AMT, Type1(S_FLOAT)>> >>

OptionalList == << <<K_amt, Type1(S_INT)>>, <<S_image, Type1(S_IMAGE)>> >>

DistinctKeys(d) == \A i, j \in 1..Len(d) : d[i][1] = d[j][1] => i = j

\* the selections of at most n entries of list, in the order of list
Selections(list, n) ==
    { [i \in 1..Len(x) |-> list[x[i]]] :
        x \in {y \in SeqsUpTo(1..Len(list), n) :
                 \A i, j \in 1..Len(y) : i < j => y[i] < y[j]} }

AdaptSchemas ==
    { [has_required |-> r # <<>>, required |-> r,
       has_optional |-> o # <<>>, optional |-> o] :
        r \in {x \in Selections(SchemaList, MaxSchema) : DistinctKeys(x)},
        o \in {<<>>, OptionalList} }

ParamItems ==
    {K_amt, K_Amt, S_image} \X {None, V_text15, V_abc, V_huge}

AdaptParams == {x \in SeqsUpTo(ParamItems, MaxParams) : DistinctKeys(x)}

InitAdapt ==
    /\ endpoint = "none"
    /\ input_types \in AdaptSchemas
    /\ params \in AdaptParams
    /\ pc = "start"
    /\ tensor_image = ToTensor(Picture)
    /\ call_params = <<>>
    /\ image_data = <<"b64", Picture>>
    /\ node_type = ""
    /\ chain = <<"missing">>
    /\ env = BareHost
    /\ use_cv2 = FALSE
    /\ steps = {}
    /\ img_array = Picture
    /\ node_mappings = NoMappings
    /\ current_tensor = ToTensor(Picture)
    /\ processed_tensor = None
    /\ idx = 1
    /\ stages = <<>>
    /\ response = NoResponse
    /\ found = FALSE
    /\ processed_img = NoImage

adaptFixed == <<image_data, node_type, params, chain, env, use_cv2, steps,
                img_array, tensor_image, node_mappings, current_tensor,
                processed_tensor, idx, stages, response, input_types, found,
                processed_img>>

\* the arguments process_image_preview builds for the schema
AdaptForProcess ==
    /\ pc = "start"
    /\ endpoint' = "process"
    /\ call_params' = AdaptSingle(input_types, params, tensor_image)
    /\ pc' = "adapted"
    /\ UNCHANGED adaptFixed

\* the arguments a stage of process_image_preview_chain builds for it
AdaptForChain ==
    /\ pc = "start"
    /\ endpoint' = "process_chain"
    /\ call_params' = AdaptChain(input_types, params, current_tensor)
    /\ pc' = "adapted"
    /\ UNCHANGED adaptFixed

NextAdapt ==
    \/ AdaptForProcess
    \/ AdaptForChain

SpecAdapt == InitAdapt /\ [][NextAdapt]_vars

Adapted == pc = "adapted"

Required == input_types.required

\* a required entry the adapter neither hides nor binds to the image
PlainEntry(i) ==
    /\ Required[i][1] # S_unique_id
    /\ ~StrIn(S_UNIQUE_ID, TypeStr(Required[i][2]))
    /\ Required[i][1] # S_image
    /\ ~StrIn(S_IMAGE, TypeStr(Required[i][2]))

ExactMatch(k) == \E j \in 1..Len(params) : params[j][1] = k

CaseMatches(k) == {j \in 1..Len(params) : Lower(params[j][1]) = Lower(k)}

\* the value the request supplies for k: under the equal key, else under
\* the first key equal ignoring case
Supplied(k) ==
    IF ExactMatch(k)
    THEN params[CHOOSE j \in 1..Len(params) : params[j][1] = k][2]
    ELSE params[SetMin(CaseMatches(k))][2]

HasSupplied(k) == ExactMatch(k) \/ CaseMatches(k) # {}

Bound(k) == \E j \in 1..Len(call_params) : call_params[j][1] = k

BoundValue(k) == call_params[CHOOSE j \in 1..Len(call_params) : call_params[j][1] = k][2]

\* entry i has no value anywhere: no key of params matches, no default
Unresolvable7(i) ==
    /\ PlainEntry(i)
    /\ ~HasSupplied(Required[i][1])
    /\ ~Required[i][2].hasdef

\* C7: when a required, non-image, non-hidden key has no exact match, no
\* case-insensitive match and no declared default, the adaptation completes,
\* the arguments have no entry for that key, and the other keys that
\* resolve are still adapted.
C7_MissingKeyOmitted ==
    Adapted =>
        \A i \in 1..Len(Required) :
            Unresolvable7(i) =>
                /\ ~Bound(Required[i][1])
                /\ \A j \in 1..Len(Required) :
                      /\ (PlainEntry(j) /\ HasSupplied(Required[j][1])
                            /\ Supplied(Required[j][1]) # None)
                            => Bound(Required[j][1])
                      /\ (PlainEntry(j) /\ Required[j][2].hasdef)
                            => Bound(Required[j][1])
                      /\ ( /\ Required[j][1] # S_unique_id
                           /\ ~StrIn(S_UNIQUE_ID, TypeStr(Required[j][2]))
                           /\ StrIn(S_IMAGE, TypeStr(Required[j][2])) )
                            => /\ Bound(Required[j][1])
                               /\ BoundValue(Required[j][1]) = tensor_image

C7_Witness ==
    /\ Adapted
    /\ endpoint = "process_chain"
    /\ Len(Required) = 2
    /\ Unresolvable7(1)
    /\ PlainEntry(2) /\ Bound(Required[2][1])
    /\ Len(params) = 2
    /\ ~Bound(Required[1][1])

FloatTag(t) == t.tuple /\ t.len > 0 /\ (StrIn(S_FLOAT, t.tag) \/ StrIn(S_float, t.tag))

IntTag(t) ==
    t.tuple /\ t.len > 0 /\ ~FloatTag(t) /\ (StrIn(S_INT, t.tag) \/ StrIn(S_int, t.tag))

\* the supplied value of entry i cannot be parsed as the number of its tag
Unparsable(i) ==
    /\ PlainEntry(i)
    /\ HasSupplied(Required[i][1])
    /\ \/ FloatTag(Required[i][2]) /\ ~PyFloat(Supplied(Required[i][1])).ok
       \/ IntTag(Required[i][2]) /\ ~PyInt(Supplied(Required[i][1])).ok

\* C8 as stated: for every required parameter with the float or the
\* integer tag whose supplied value cannot be parsed as that number, the
\* arguments bind the key to the raw value.
C8_UnparsableKeepsRaw ==
    Adapted =>
        \A i \in 1..Len(Required) :
            Unparsable(i) =>
                /\ Bound(Required[i][1])
                /\ BoundValue(Required[i][1]) = Supplied(Required[i][1])

\* C8 as amended: the same for every supplied value that is not null
C8_UnparsableNonNullKeepsRaw ==
    Adapted =>
        \A i \in 1..Len(Required) :
            (Unparsable(i) /\ Supplied(Required[i][1]) # None) =>
                /\ Bound(Required[i][1])
                /\ BoundValue(Required[i][1]) = Supplied(Required[i][1])

C8_Witness ==
    /\ Adapted
    /\ \E i \in 1..Len(Required) :
          /\ Unparsable(i)
          /\ FloatTag(Required[i][2])
          /\ Required[i][2].hasdef
          /\ ~ExactMatch(Required[i][1])
          /\ Supplied(Required[i][1]) = V_huge
          /\ BoundValue(Required[i][1]) = V_huge

\* ------------------------------------------------------------------------
\* The fallback transform on its own
\* ------------------------------------------------------------------------
FallbackImages ==
    { Picture,
      [h |-> 1, w |-> 1, px |-> <<128>>],
      [h |-> 2, w |-> 2, px |-> <<0, 255, 100, 30>>] }

FallbackValues ==
    { <<"int", 0>>, V_one, V_true, <<"bool", 0>>,
      <<"float", 5>>, <<"float", -5>>, <<"float", Scale + 5>>, <<"float", Scale - 5>>,
      <<"intstr", 0>>, <<"floatstr", Scale>>,
      None, V_abc, <<"list", 2>>,
      <<"float", 10>>, <<"float", Scale + 10>>,
      V_two, <<"float", -2 * Scale>>, <<"float", Scale \div 2>>,
      <<"float", Scale \div 20>>, <<"int", 20 * Scale>>,
      <<"float", -(Scale \div 10)>>, <<"int", -20 * Scale>>,
      V_huge, <<"hugestr", 1>> }

ParamNames == <<K_amt, K_Amt, K_AMT, K_mode, K_pic>>

\* the params whose values are vs, in that order
ParamsOf(vs) == [i \in 1..Len(vs) |-> <<ParamNames[i], vs[i]>>]

FallbackParams == { ParamsOf(vs) : vs \in SeqsUpTo(FallbackValues, MaxParams) }

InitFallback ==
    /\ endpoint = "process"
    /\ img_array \in FallbackImages
    /\ params \in FallbackParams
    /\ use_cv2 \in BOOLEAN
    /\ pc = "start"
    /\ processed_img = NoImage
    /\ response = NoResponse
    /\ tensor_image = ToTensor(img_array)
    /\ image_data = <<"b64", img_array>>
    /\ node_type = ""
    /\ chain = <<"missing">>
    /\ env = BareHost
    /\ steps = {"decode"}
    /\ node_mappings = NoMappings
    /\ current_tensor = None
    /\ processed_tensor = None
    /\ idx = 1
    /\ stages = <<>>
    /\ input_types = NoInputTypes
    /\ call_params = <<>>
    /\ found = FALSE

\* the fallback of process_image_preview, and the 500 when it raises
ApplyFallback ==
    /\ pc = "start"
    /\ LET f == Fallback(img_array, params, use_cv2)
       IN /\ processed_img' = f.img
          /\ response' = IF f.raised THEN ErrorResponse(500) ELSE response
    /\ pc' = "fell"
    /\ UNCHANGED <<request, steps, img_array, tensor_image, node_mappings,
                   current_tensor, processed_tensor, idx, stages, input_types,
                   call_params, found>>

NextFallback == ApplyFallback

SpecFallback == InitFallback /\ [][NextFallback]_vars

\* a value that is a number or the text of a number
Numeric(v) ==
    Kind(v) \in {"bool", "int", "float", "intstr", "floatstr", "huge", "hugestr", "inf"}

\* a number within 0.0001 of 0 or of 1
ZeroOrOne(v) ==
    /\ Kind(v) \in {"bool", "int", "float", "intstr", "floatstr"}
    /\ LET n == IF Kind(v) = "bool" THEN Num(v) * Scale ELSE Num(v)
       IN (-10 < n /\ n < 10) \/ (Scale - 10 < n /\ n < Scale + 10)

NoOpParams == \A i \in 1..Len(params) : Numeric(params[i][2]) => ZeroOrOne(params[i][2])

\* C9: when every numeric value of params is 0 or 1 within 0.0001, the
\* array the fallback produces equals the decoded array pixel for pixel,
\* for any number of parameters, with or without cv2.
C9_NoOpValuesKeepImage ==
    (pc = "fell" /\ NoOpParams) =>
        /\ processed_img = img_array
        /\ response.status = 0

C9_Witness ==
    /\ pc = "fell"
    /\ use_cv2
    /\ Len(params) = 2
    /\ params[1][2] = <<"float", Scale + 5>>
    /\ params[2][2] = V_abc
    /\ Len(img_array.px) = 4
    /\ processed_img = img_array

\* ------------------------------------------------------------------------
\* The registry lookup on its own
\* ------------------------------------------------------------------------
MaxModules == 2

RegA == << <<"A", StdClass("tuple_tensor", "invert")>> >>
RegB == << <<"B", StdClass("tensor", "halve")>> >>

LookupModules ==
    { [match |-> FALSE, ncm |-> <<"ok", RegA>>],
      [match |-> TRUE, ncm |-> <<"absent">>],
      [match |-> TRUE, ncm |-> <<"raise">>],
      [match |-> TRUE, ncm |-> <<"ok", <<>>>>],
      [match |-> TRUE, ncm |-> <<"ok", RegA>>],
      [match |-> TRUE, ncm |-> <<"ok", RegB>>] }

LookupHosts ==
    [execution : {<<"ImportError">>, <<"raise">>, <<"ok", <<>>>>, <<"ok", RegA>>,
                  <<"ok", RegB>>},
     inst_ncm : {<<"absent">>, <<"raise">>, <<"ok", <<>>>>, <<"ok", RegA>>,
                 <<"ok", RegB>>},
     inst_nodes : {<<"absent">>, <<"other">>, <<"raise">>, <<"ok", RegA>>},
     modules : SeqsUpTo(LookupModules, MaxModules)]

InitLookup ==
    /\ endpoint \in {"process", "process_chain"}
    /\ env \in LookupHosts
    /\ node_type \in {"", "A", "B"}
    /\ pc = "start"
    /\ node_mappings = NoMappings
    /\ found = FALSE
    /\ response = NoResponse
    /\ image_data = <<"b64", Picture>>
    /\ params = <<>>
    /\ chain = <<"missing">>
    /\ use_cv2 = FALSE
    /\ steps = {"decode"}
    /\ img_array = Picture
    /\ tensor_image = ToTensor(Picture)
    /\ current_tensor = ToTensor(Picture)
    /\ processed_tensor = None
    /\ idx = 1
    /\ stages = <<>>
    /\ input_types = NoInputTypes
    /\ call_params = <<>>
    /\ processed_img = NoImage

lookupFixed == <<request, img_array, tensor_image, current_tensor, processed_tensor,
                 idx, stages, input_types, call_params, processed_img>>

\* the lookup of process_image_preview and its test of node_type
LookupForProcess ==
    /\ endpoint = "process" /\ pc = "start"
    /\ LET l == LookupSingle(env)
       IN /\ node_mappings' = l.node_mappings
          /\ found' = (~l.raised /\ Resolves(node_type, l.node_mappings))
    /\ steps' = steps \cup {"lookup"}
    /\ pc' = "looked"
    /\ response' = response
    /\ UNCHANGED lookupFixed

\* the lookup of process_image_preview_chain and its test of a stage's type
LookupForChain ==
    /\ endpoint = "process_chain" /\ pc = "start"
    /\ LET l == LookupChain(env)
       IN /\ node_mappings' = l.node_mappings
          /\ found' = (~l.raised /\ Resolves(node_type, l.node_mappings))
          /\ response' = IF l.raised THEN ErrorResponse(500) ELSE response
    /\ steps' = steps \cup {"lookup"}
    /\ pc' = "looked"
    /\ UNCHANGED lookupFixed

NextLookup ==
    \/ LookupForProcess
    \/ LookupForChain

SpecLookup == InitLookup /\ [][NextLookup]_vars

Contains(reg, name) == reg[1] = "ok" /\ \E i \in 1..Len(reg[2]) : reg[2][i][1] = name

\* some registry the three steps can reach contains the name
SomeRegistryHas(name) ==
    \/ Contains(env.execution, name)
    \/ Contains(env.inst_ncm, name)
    \/ Contains(env.inst_nodes, name)
    \/ \E i \in 1..Len(env.modules) :
          env.modules[i].match /\ Contains(env.modules[i].ncm, name)

\* C10 as stated: the lookup resolves the type-name whenever a registry
\* reachable by one of the three steps contains it, and reports it as not
\* found only when none does.
C10_AnyRegistryResolves ==
    (pc = "looked" /\ node_type # "" /\ env.execution[1] # "raise") =>
        (found <=> SomeRegistryHas(node_type))

NonEmpty(reg) == reg[1] = "ok" /\ reg[2] # <<>>

\* the host singleton's registry as the handler reads it
SingletonRegistry ==
    IF endpoint = "process"
    THEN IF env.inst_ncm[1] = "ok" THEN env.inst_ncm
         ELSE IF env.inst_ncm[1] = "raise" THEN <<"absent">>
         ELSE env.inst_nodes
    ELSE IF env.execution[1] = "ImportError" THEN env.inst_ncm ELSE <<"absent">>

\* the registry of the first scanned module that has one
FirstModuleRegistry ==
    LET hits == {i \in 1..Len(env.modules) :
                    env.modules[i].match /\ env.modules[i].ncm[1] = "ok"}
    IN IF hits = {} THEN <<"absent">>
       ELSE env.modules[CHOOSE i \in hits : \A j \in hits : i <= j].ncm

\* the first non-empty registry in search order
SelectedRegistry ==
    IF NonEmpty(env.execution) THEN env.execution
    ELSE IF NonEmpty(SingletonRegistry) THEN SingletonRegistry
    ELSE IF NonEmpty(FirstModuleRegistry) THEN FirstModuleRegistry
    ELSE <<"absent">>

\* C10 as amended: the lookup takes the first non-empty registry in search
\* order (global registry, host singleton, first scanned module with a
\* registry) and resolves the type-name exactly when that registry
\* contains it and the global import raised nothing but ImportError.
C10_FirstRegistryDecides ==
    (pc = "looked" /\ node_type # "") =>
        (found <=> (env.execution[1] # "raise" /\ Contains(SelectedRegistry, node_type)))

C10_Witness ==
    /\ pc = "looked"
    /\ endpoint = "process"
    /\ found
    /\ node_type = "A"
    /\ env.execution = <<"ok", <<>>>>
    /\ env.inst_ncm = <<"absent">>
    /\ env.inst_nodes = <<"ok", RegA>>
    /\ Len(env.modules) = 2
    /\ env.modules[1].ncm = <<"ok", RegB>>

\* ------------------------------------------------------------------------
\* Exceptions during the registry search
\* ------------------------------------------------------------------------
\* a search step of the host raises
StepRaises(e) ==
    \/ e.execution[1] = "raise"
    \/ e.inst_ncm[1] = "raise"
    \/ e.inst_nodes[1] = "raise"
    \/ \E i \in 1..Len(e.modules) : e.modules[i].match /\ e.modules[i].ncm[1] = "raise"

\* the host with every raising step replaced by a step that finds nothing
Quiet(e) ==
    [execution |-> IF e.execution[1] = "raise" THEN <<"ImportError">> ELSE e.execution,
     inst_ncm |-> IF e.inst_ncm[1] = "raise" THEN <<"absent">> ELSE e.inst_ncm,
     inst_nodes |-> IF "raise" \in {e.inst_ncm[1], e.inst_nodes[1]}
                    THEN <<"absent">> ELSE e.inst_nodes,
     modules |-> [i \in 1..Len(e.modules) |->
                    IF e.modules[i].ncm[1] = "raise"
                    THEN [match |-> e.modules[i].match, ncm |-> <<"absent">>]
                    ELSE e.modules[i]]]

\* the registry the search of the handler finds on a host where no step
\* raises: the first non-empty one of the global registry, the singleton's
\* and the first scanned module's that has one
QuietRegistry(e) ==
    LET single == IF endpoint = "process"
                  THEN IF e.inst_ncm[1] = "ok" THEN e.inst_ncm ELSE e.inst_nodes
                  ELSE IF e.execution[1] = "ImportError" THEN e.inst_ncm
                  ELSE <<"absent">>
        hits == {i \in 1..Len(e.modules) :
                    e.modules[i].match /\ e.modules[i].ncm[1] = "ok"}
        scanned == IF hits = {} THEN <<"absent">>
                   ELSE e.modules[CHOOSE i \in hits : \A j \in hits : i <= j].ncm
    IN IF NonEmpty(e.execution) THEN e.execution
       ELSE IF NonEmpty(single) THEN single
       ELSE IF NonEmpty(scanned) THEN scanned
       ELSE <<"absent">>

\* C11: in both endpoints an exception raised by a search step (the global
\* import, the probe of the host singleton, the scan of the loaded modules)
\* counts as "not found at that step": the lookup goes on with the next
\* step and resolves the type-name as it would on the host where that step
\* finds nothing, and no error response comes of it.
C11_StepExceptionsSwallowed ==
    (pc = "looked" /\ node_type # "" /\ StepRaises(env)) =>
        /\ response.status = 0
        /\ (found <=> Contains(QuietRegistry(Quiet(env)), node_type))

\* ------------------------------------------------------------------------
\* Chains of nodes with optional inputs, an image bound by name, and
\* results of every rank
\* ------------------------------------------------------------------------
MaxStages == 3

\* a node with an optional float input beside its image
OptAmtClass ==
    [StdClass("tuple_tensor", "halve") EXCEPT
        !.input_types = [has_required |-> TRUE,
                         required |-> << <<S_image, Type1(S_IMAGE)>> >>,
                         has_optional |-> TRUE,
                         optional |-> << <<K_amt, Type1(S_FLOAT)>> >>]]

\* a node whose schema does not declare the image its entry point takes
ByNameClass ==
    [StdClass("tuple_tensor", "halve") EXCEPT
        !.input_types = [has_required |-> TRUE,
                         required |-> << <<K_amt, TypeDef(S_FLOAT, <<"float", Scale>>)>> >>,
                         has_optional |-> FALSE,
                         optional |-> <<>>]]

StageRegistry ==
    << <<"Invert", StdClass("tuple_tensor", "invert")>>,
       <<"RetFlat", StdClass("tuple_rank2", "invert")>>,
       <<"RetList", StdClass("tuple_list", "invert")>>,
       <<"Unflatten", StdClass("tuple_rank4", "halve")>>,
       <<"OptAmt", OptAmtClass>>,
       <<"ByName", ByNameClass>> >>

StageHost ==
    [execution |-> <<"ok", StageRegistry>>, inst_ncm |-> <<"absent">>,
     inst_nodes |-> <<"absent">>, modules |-> <<>>]

StageInfos ==
    { [type |-> "Invert", params |-> <<>>],
      [type |-> "RetFlat", params |-> <<>>],
      [type |-> "RetList", params |-> <<>>],
      [type |-> "Unflatten", params |-> <<>>],
      [type |-> "OptAmt", params |-> << <<K_amt, V_two>> >>],
      [type |-> "ByName", params |-> << <<S_image, V_abc>> >>],
      [type |-> "Unknown", params |-> <<>>] }

InitStages ==
    /\ endpoint = "process_chain"
    /\ image_data = <<"b64", Picture>>
    /\ env = StageHost
    /\ node_type = ""
    /\ params = <<>>
    /\ chain \in { <<"list", c>> : c \in SeqsUpTo(StageInfos, MaxStages) }
    /\ use_cv2 = FALSE
    /\ InitWork
    /\ InitBench

NextStages ==
    \/ ChainCheck
    \/ ChainDecode
    \/ ChainLookup
    \/ ChainStage
    \/ ChainRespond

SpecStages == InitStages /\ [][NextStages]_vars

\* what /image_preview/process does with the node, the params and the
\* image of stage i
SingleOf(i) ==
    NodePath(stages[i].type, ChainEntries[i].params, env, stages[i].before)

\* C12: for the same node, image tensor and params a chain stage builds the
\* arguments and ends with the tensor that the single-node endpoint builds
\* and ends with, whenever the single-node endpoint gets its result from
\* the node (optional entries, the literal "image" rule and the conversion
\* of element 0 of a returned tuple included).
C12_StageMatchesSingle ==
    endpoint = "process_chain" =>
        \A i \in 1..Len(stages) :
            SingleOf(i).outcome = "ok" =>
                /\ stages[i].invoked
                /\ stages[i].call_params = SingleOf(i).call_params
                /\ stages[i].outcome = "ok"
                /\ stages[i].after = SingleOf(i).tensor

\* stage i resolved and succeeded
Succeeded(i) == stages[i].invoked /\ stages[i].outcome = "ok"

\* the image argument stage i called its node with
ImageArgument(i) == Get(stages[i].call_params, S_image)

\* C13: the chain entries are visited in list order; of two stages that
\* succeed with no successful stage between them the later one receives as
\* its image the tensor the earlier one produced; the first successful
\* stage receives the decoded image when no earlier stage changed it.
C13_StagesFeedInOrder ==
    endpoint = "process_chain" =>
        /\ Len(stages) <= Len(ChainEntries)
        /\ Len(stages) = idx - 1
        /\ \A i \in 1..Len(stages) : stages[i].type = ChainEntries[i].type
        /\ \A i, j \in 1..Len(stages) :
              ( /\ i < j /\ Succeeded(i) /\ Succeeded(j)
                /\ \A k \in (i + 1)..(j - 1) : ~Succeeded(k) )
                => /\ HasKey(stages[j].call_params, S_image)
                   /\ ImageArgument(j) = stages[i].after
        /\ \A j \in 1..Len(stages) :
              ( /\ Succeeded(j)
                /\ \A k \in 1..(j - 1) : stages[k].after = stages[k].before )
                => ImageArgument(j) = ToTensor(img_array)

\* ------------------------------------------------------------------------
\* Properties of the parameter adapter: the source of a value, unknown
\* tags, the image argument
\* ------------------------------------------------------------------------
\* the raw value by the stated priority: the exact key if present, else
\* the first key equal ignoring case, else the declared default
StatedRaw(i) ==
    IF HasSupplied(Required[i][1]) THEN Supplied(Required[i][1])
    ELSE IF Required[i][2].hasdef THEN Required[i][2].def
    ELSE None

\* the same, a null found in params counting as no value
ActualRaw(i) ==
    IF HasSupplied(Required[i][1]) /\ Supplied(Required[i][1]) # None
    THEN Supplied(Required[i][1])
    ELSE IF Required[i][2].hasdef THEN Required[i][2].def
    ELSE None

\* only the required entry can bind the key of entry i
OnlyRequiredBinds(i) ==
    endpoint = "process_chain" \/ ~HasKey(input_types.optional, Required[i][1])

\* C14 as stated: the raw value of a required, non-image, non-hidden key is
\* the value under the exactly equal key of params if that key is present,
\* else the value of the first key of params equal ignoring case, else the
\* declared default; a lower source is used only when every higher one is
\* absent.
C14_PriorityOfSources ==
    Adapted =>
        \A i \in 1..Len(Required) :
            PlainEntry(i) =>
                /\ StatedRaw(i) # None =>
                      /\ Bound(Required[i][1])
                      /\ BoundValue(Required[i][1])
                            = CoerceRequired(Required[i][2], StatedRaw(i))
                /\ (StatedRaw(i) = None /\ OnlyRequiredBinds(i)) =>
                      ~Bound(Required[i][1])

\* C14 as amended: the same priority, where a key of params that holds
\* null is a source without a value: the declared default is used then.
C14_PriorityOfNonNullSources ==
    Adapted =>
        \A i \in 1..Len(Required) :
            PlainEntry(i) =>
                /\ ActualRaw(i) # None =>
                      /\ Bound(Required[i][1])
                      /\ BoundValue(Required[i][1])
                            = CoerceRequired(Required[i][2], ActualRaw(i))
                /\ (ActualRaw(i) = None /\ OnlyRequiredBinds(i)) =>
                      ~Bound(Required[i][1])

C14_Witness ==
    /\ Adapted
    /\ \E i \in 1..Len(Required) :
          /\ PlainEntry(i)
          /\ ~ExactMatch(Required[i][1])
          /\ Cardinality(CaseMatches(Required[i][1])) = 2
          /\ params[1][2] = V_text15
          /\ params[2][2] = V_abc
          /\ BoundValue(Required[i][1]) = <<"float", 3 * (Scale \div 2)>>

\* the tag of a type is none of the tags the adapter converts for
UnknownTag(t) ==
    /\ ~StrIn(S_FLOAT, t.tag) /\ ~StrIn(S_float, t.tag)
    /\ ~StrIn(S_INT, t.tag) /\ ~StrIn(S_int, t.tag)
    /\ ~StrIn(S_BOOLEAN, t.tag) /\ ~StrIn(S_bool, t.tag)
    /\ ~StrIn(S_STRING, t.tag) /\ ~StrIn(S_str, t.tag)

\* C16: a required parameter whose tag is none of the float, integer,
\* boolean and string tags is bound to its raw value unchanged.
C16_UnknownTagPassesRaw ==
    Adapted =>
        \A i \in 1..Len(Required) :
            (PlainEntry(i) /\ UnknownTag(Required[i][2]) /\ ActualRaw(i) # None) =>
                /\ Bound(Required[i][1])
                /\ BoundValue(Required[i][1]) = ActualRaw(i)

C16_Witness ==
    /\ Adapted
    /\ \E i \in 1..Len(Required) :
          /\ PlainEntry(i)
          /\ Required[i][2].tag = S_MASK
          /\ HasSupplied(Required[i][1])
          /\ Supplied(Required[i][1]) = V_text15
          /\ BoundValue(Required[i][1]) = V_text15

\* C18: at /image_preview/process the arguments' "image", when there is
\* one, is the tensor decoded from the request; no value of params is
\* passed under that key, be it bound by a required entry, an optional
\* entry or the literal-"image" rule.
C18_ImageIsDecodedTensor ==
    (Adapted /\ endpoint = "process" /\ Bound(S_image)) =>
        BoundValue(S_image) = tensor_image

\* ------------------------------------------------------------------------
\* The validation of the node's result at /image_preview/process
\* ------------------------------------------------------------------------
\* the value the conversion of a result produces: element 0 of a tuple, a
\* tensor itself, the tensor made of an array or a nested list
ConvertedValue(result) ==
    IF result[1] = "tuple"
    THEN IF Len(result[2]) > 0 /\ result[2][1][1] \in {"tensor", "ndarray", "pylist"}
         THEN <<"tensor", result[2][1][2]>>
         ELSE None
    ELSE IF result[1] \in {"tensor", "ndarray"}
    THEN <<"tensor", result[2]>>
    ELSE None

\* the conversion succeeds and gives a tensor of rank below 3
LowRankResult(result) ==
    /\ result # None
    /\ ConvertedValue(result) # None
    /\ ConvertedValue(result)[2].rank < 3

\* C15: at /image_preview/process a node's return value is the processed
\* image only if it normalizes to a tensor of rank at least 3; a value that
\* normalizes to a tensor of lower rank is an invocation failure and the
\* output of the fallback transform is returned instead.
C15_LowRankFallsBack ==
    ( /\ endpoint = "process" /\ Finished /\ GoodImage
      /\ Len(stages) = 1 /\ stages[1].invoked /\ ~stages[1].call.raised )
        => /\ processed_tensor # None =>
                 /\ IsTensor(processed_tensor)
                 /\ Rank(processed_tensor) >= 3
                 /\ ConvertedValue(stages[1].call.result) = processed_tensor
           /\ LowRankResult(stages[1].call.result) =>
                 /\ processed_tensor = None
                 /\ response.success
                 /\ response.status = 200
                 /\ response.px = Fallback(img_array, params, use_cv2).img.px
                 /\ response.width = img_array.w
                 /\ response.height = img_array.h

\* ------------------------------------------------------------------------
\* The brightness step of the fallback transform
\* ------------------------------------------------------------------------
\* the stated factor, in thousandths: the value when it is positive, the
\* reciprocal of its magnitude when it is negative, clamped to [0.1, 10.0]
ClampedFactor(n) ==
    IF n > 0 THEN Clip(n \div (Scale \div 1000), 100, 10000)
    ELSE IF Abs(n) < Scale \div 1000 THEN 10000
    ELSE Clip((1000 * 1000) \div (Abs(n) \div (Scale \div 1000)), 100, 10000)

\* the loop over params with the stated brightness step: every value that
\* is not skipped multiplies the pixels by the clamped factor, and the
\* other steps follow
RECURSIVE ClampedLoop(_, _, _, _, _)
ClampedLoop(px, h, w, ps, cv) ==
    IF ps = <<>>
    THEN px
    ELSE LET f == PyFloat(Head(ps)[2])
             n == FloatNum(f.val)
             p1 == [i \in 1..Len(px) |-> (px[i] * ClampedFactor(n)) \div 1000]
             p4 == Sharpen(HsvAdjust(Contrast(p1, n), n, cv), h, w, n, cv)
         IN IF ~f.ok
            THEN IF f.exc \in {"ValueError", "TypeError"}
                 THEN ClampedLoop(px, h, w, Tail(ps), cv)
                 ELSE px
            ELSE IF Abs(n) < Tolerance \/ Abs(n - Scale) < Tolerance
                 THEN ClampedLoop(px, h, w, Tail(ps), cv)
                 ELSE ClampedLoop([i \in 1..Len(p4) |-> Clip(p4[i], 0, 255 * PxUnit)],
                                  h, w, Tail(ps), cv)

\* C17: in the fallback transform every numeric-parseable value v that is
\* not within 0.0001 of 0 or of 1 multiplies the image by the factor v
\* (v positive) or 1/|v| (v negative) clamped to [0.1, 10.0]; values with
\* |v| above 10 or below 0.1 scale the image by the clamped factor too.
C17_BrightnessAlwaysClamped ==
    pc = "fell" =>
        processed_img.px =
            LET r == ClampedLoop([i \in 1..Len(img_array.px) |-> img_array.px[i] * PxUnit],
                                 img_array.h, img_array.w, params, use_cv2)
            IN [i \in 1..Len(r) |-> r[i] \div PxUnit]

====
